---- MODULE Spec2Model ----
(***************************************************************************)
(* play_silence.c: a single-threaded ALSA client that opens and configures *)
(* a playback device, writes a zeroed buffer to it in a loop and, on exit  *)
(* of the loop, drains and closes the device.  The only asynchronous       *)
(* actor is the signal handler, which clears the run flag.                 *)
(*                                                                         *)
(* Every blocking library call is one step of the program counter pc, so   *)
(* that the handler can run between any two of them.                       *)
(***************************************************************************)
EXTENDS Integers, Sequences, FiniteSets, TLC

\* ---------------------------------------------------------------- bounds
\* The counters of device calls saturate at MaxCalls (they only observe).
MaxCalls == 3
\* How many times the close harness of CloseTwiceSpec calls cleanup_alsa.
MaxCleanupCalls == 2

\* ------------------------------------------------------ program constants
buffer_frames == 1024
max_recovery_attempts == 3
EPIPE == 32
EIO == 5
SIGINT == 2
SIGTERM == 15
RequestedRate == 44100
OtherRate == 48000

NULL == "NULL"
\* the pointer value snd_pcm_open stores on success
Handle == "pcm"
\* the pointer value calloc returns on success
Buf == "buf"

\* argc, and argv[1] when argc >= 2 (argv[argc] is the null pointer)
ArgcValues == {1, 2, 3}
Argv1Values == {"-h", "--help", "hw:0,0"}

\* results of snd_pcm_writei: a negative errno, or the frames written
WriteResults == {-EPIPE, -EIO, 0, 512, buffer_frames}
\* results of the configuration calls and of snd_pcm_prepare
CallResults == {0, -EIO}
\* rates snd_pcm_hw_params_set_rate_near may grant
Rates == {RequestedRate, OtherRate}

VARIABLES
    argc, argv1,        \* the command line
    device_name,        \* main's device_name
    pc,                 \* position of the single thread of control
    rc,                 \* the value main is about to return
    exitCode,           \* process exit status, -1 while the process runs
    running,            \* static volatile int running
    handlers,           \* TRUE once setup_signals has run
    sig_received,       \* last signal number the handler printed, 0 if none
    pcm_handle,         \* static snd_pcm_t *pcm_handle
    device,             \* the PCM behind the handle: "none", "open", "closed"
    attempted,          \* configuration calls made so far, with their results
    sample_rate,        \* init_alsa's sample_rate
    silence_buffer,     \* play_silence_loop's silence_buffer pointer
    heap,               \* the samples of the live allocation, << >> if none
    frames_written,     \* play_silence_loop's frames_written
    recovery_attempts,  \* play_silence_loop's recovery_attempts
    loopExit,           \* why the loop ended: "none", "stopped", "ceiling",
                        \* "fatal", "nomem"
    writes, prepares,   \* calls of snd_pcm_writei / snd_pcm_prepare (saturating)
    drains, closes,     \* calls of snd_pcm_drain / snd_pcm_close
    allocs,             \* successful callocs
    cleanupCalls,       \* calls of cleanup_alsa
    writesAfterStop,    \* writes begun while running = 0 (saturating)
    stopPc,             \* pc at which the handler first cleared running
    consecFails,        \* failed re-primes since the last full write or
                        \* successful re-prime
    staleUse,           \* TRUE once a device call acted on a closed PCM
    init_error,         \* the message init_alsa printed to stderr, or "none"
    requested,          \* frame count passed to the last snd_pcm_writei
    preparesThisIter,   \* snd_pcm_prepare calls since the last write began
    lastPause,          \* usleep made since the last write returned:
                        \* "none", "1ms" or "100ms"
    stopWrites          \* value of writes when the handler first cleared
                        \* running

vars == <<argc, argv1, device_name, pc, rc, exitCode, running, handlers,
          sig_received, pcm_handle, device, attempted, sample_rate,
          silence_buffer, heap, frames_written, recovery_attempts, loopExit,
          writes, prepares, drains, closes, allocs, cleanupCalls,
          writesAfterStop, stopPc, consecFails, staleUse, init_error,
          requested, preparesThisIter, lastPause, stopWrites>>

\* groups of variables, for UNCHANGED
argVars == <<argc, argv1>>
sigVars == <<running, handlers, sig_received, stopPc, stopWrites>>
devVars == <<pcm_handle, device, attempted, sample_rate, init_error>>
bufVars == <<silence_buffer, heap, allocs>>
loopVars == <<frames_written, recovery_attempts, loopExit, consecFails,
              requested, preparesThisIter, lastPause>>
callVars == <<writes, prepares, drains, closes, writesAfterStop, staleUse>>

\* ---------------------------------------------------------------- helpers
Sat(n) == IF n < MaxCalls THEN n + 1 ELSE n

\* a device call on the handle: stale if the PCM behind it was closed
Stale == staleUse \/ device = "closed"

\* the check inverted: "if (err > 0)"
Failed_Positive(err) == err > 0

\* "if (err < 0)" after every configuration call
Failed(err) == err < 0

\* the long form forgotten: "strcmp(argv[1], "-h") == 0"
IsHelp_ShortOnly(a) == a = "-h"

\* "strcmp(argv[1], "-h") == 0 || strcmp(argv[1], "--help") == 0"
IsHelp(a) == a = "-h" \/ a = "--help"

\* the flag is never polled: "while (1)"
LoopCondition_Always(r) == TRUE

\* "while (running)"
LoopCondition(r) == r # 0

\* every write error is taken for an underrun: "if (frames_written < 0)"
IsUnderrun_AnyError(fw) == fw < 0

\* "if (frames_written == -EPIPE)"
IsUnderrun(fw) == fw = -EPIPE

\* off by one: "if (recovery_attempts > max_recovery_attempts)"
CeilingReached_Strict(n) == n > max_recovery_attempts

\* "if (recovery_attempts >= max_recovery_attempts)"
CeilingReached(n) == n >= max_recovery_attempts

\* malloc in place of calloc: the first sample is whatever the heap held
Zeros_Uninitialised(n) == [i \in 1..n |-> IF i = 1 THEN 1 ELSE 0]

\* "calloc(buffer_frames * 2, sizeof(short))": n zero samples
Zeros(n) == [i \in 1..n |-> 0]

\* the null check after calloc dropped
AllocFailed_Never(p) == FALSE

\* "if (!silence_buffer)"
AllocFailed(p) == p = NULL

\* the shortfall of a partial write re-queued on the next call
WriteCount_Remainder(fw) ==
    IF fw > 0 /\ fw < buffer_frames THEN buffer_frames - fw ELSE buffer_frames

\* third argument of "snd_pcm_writei(pcm_handle, silence_buffer, buffer_frames)"
WriteCount(fw) == buffer_frames

\* the format stage reporting the access stage's text
ErrorMessage_CopyPaste(stage) ==
    CASE stage = "snd_pcm_open"  -> "Cannot open PCM device"
      [] stage = "hw_params_any" -> "Cannot initialize hw params"
      [] stage = "set_access"    -> "Cannot set access type"
      [] stage = "set_format"    -> "Cannot set access type"
      [] stage = "set_channels"  -> "Cannot set channels"
      [] stage = "set_rate_near" -> "Cannot set sample rate"
      [] stage = "hw_params"     -> "Cannot apply hw params"

\* the fprintf of each failing configuration call (lines 46, 57, 66, 75, 83,
\* 92, 100)
ErrorMessage(stage) ==
    CASE stage = "snd_pcm_open"  -> "Cannot open PCM device"
      [] stage = "hw_params_any" -> "Cannot initialize hw params"
      [] stage = "set_access"    -> "Cannot set access type"
      [] stage = "set_format"    -> "Cannot set format"
      [] stage = "set_channels"  -> "Cannot set channels"
      [] stage = "set_rate_near" -> "Cannot set sample rate"
      [] stage = "hw_params"     -> "Cannot apply hw params"

\* the null check dropped
HandleSet_Always(h) == TRUE

\* "if (pcm_handle)"
HandleSet(h) == h # NULL

\* ------------------------------------------------------------------- Init
Init ==
    /\ argc \in ArgcValues
    /\ argv1 \in IF argc = 1 THEN {NULL} ELSE Argv1Values
    /\ device_name = "default"
    /\ pc = "main"
    /\ rc = 0
    /\ exitCode = -1
    /\ running = 1
    /\ handlers = FALSE
    /\ sig_received = 0
    /\ pcm_handle = NULL
    /\ device = "none"
    /\ attempted = << >>
    /\ sample_rate = RequestedRate
    /\ silence_buffer = NULL
    /\ heap = << >>
    /\ frames_written = 0
    /\ recovery_attempts = 0
    /\ loopExit = "none"
    /\ writes = 0
    /\ prepares = 0
    /\ drains = 0
    /\ closes = 0
    /\ allocs = 0
    /\ cleanupCalls = 0
    /\ writesAfterStop = 0
    /\ stopPc = "none"
    /\ consecFails = 0
    /\ staleUse = FALSE
    /\ init_error = "none"
    /\ requested = 0
    /\ preparesThisIter = 0
    /\ lastPause = "none"
    /\ stopWrites = 0

\* --------------------------------------------------------- signal handler
\* signal_handler: runs between any two steps once the handlers are installed
signal_handler ==
    /\ handlers
    /\ pc # "exited"
    /\ \E sig \in {SIGINT, SIGTERM} : sig_received' = sig
    /\ running' = 0
    /\ stopPc' = IF running # 0 THEN pc ELSE stopPc
    /\ stopWrites' = IF running # 0 THEN writes ELSE stopWrites
    /\ UNCHANGED <<argVars, device_name, pc, rc, exitCode, handlers, devVars,
                   bufVars, loopVars, callVars, cleanupCalls>>

\* ------------------------------------------------------------------- main
\* main, lines 200-212: argument parsing
ParseArgs ==
    /\ pc = "main"
    /\ IF argc > 2
         THEN /\ rc' = 1
              /\ pc' = "main_return"
              /\ UNCHANGED device_name
         ELSE IF argc = 2 /\ IsHelp(argv1)
           THEN /\ rc' = 0
                /\ pc' = "main_return"
                /\ UNCHANGED device_name
           ELSE /\ device_name' = IF argc = 2 THEN argv1 ELSE device_name
                /\ pc' = "setup_signals"
                /\ UNCHANGED rc
    /\ UNCHANGED <<argVars, exitCode, sigVars, devVars, bufVars, loopVars,
                   callVars, cleanupCalls>>

\* setup_signals, lines 31-34
setup_signals ==
    /\ pc = "setup_signals"
    /\ handlers' = TRUE
    /\ pc' = "snd_pcm_open"
    /\ UNCHANGED <<argVars, device_name, rc, exitCode, running, sig_received,
                   stopPc, stopWrites, devVars, bufVars, loopVars, callVars,
                   cleanupCalls>>

\* main, lines 222-225: init_alsa returned -1
InitFailed ==
    /\ rc' = 1
    /\ pc' = "cleanup_alsa"
    /\ cleanupCalls' = cleanupCalls + 1

\* one configuration call of init_alsa that does not touch the handle
ConfigCall(stage, next) ==
    /\ pc = stage
    /\ \E err \in CallResults :
         /\ attempted' = Append(attempted, [stage |-> stage, err |-> err])
         /\ IF Failed(err)
              THEN /\ init_error' = ErrorMessage(stage)
                   /\ InitFailed
              ELSE /\ pc' = next
                   /\ UNCHANGED <<rc, cleanupCalls, init_error>>
    /\ UNCHANGED <<argVars, device_name, exitCode, sigVars, pcm_handle, device,
                   sample_rate, bufVars, loopVars, callVars>>

\* init_alsa, lines 44-49
snd_pcm_open ==
    /\ pc = "snd_pcm_open"
    /\ \E err \in CallResults :
         /\ attempted' = Append(attempted, [stage |-> "snd_pcm_open", err |-> err])
         /\ IF Failed(err)
              THEN /\ init_error' = ErrorMessage("snd_pcm_open")
                   /\ InitFailed
                   /\ UNCHANGED <<pcm_handle, device>>
              ELSE /\ pcm_handle' = Handle
                   /\ device' = "open"
                   /\ pc' = "hw_params_any"
                   /\ UNCHANGED <<rc, cleanupCalls, init_error>>
    /\ UNCHANGED <<argVars, device_name, exitCode, sigVars, sample_rate,
                   bufVars, loopVars, callVars>>

\* init_alsa, lines 55-60
snd_pcm_hw_params_any == ConfigCall("hw_params_any", "set_access")

\* init_alsa, lines 63-69
snd_pcm_hw_params_set_access == ConfigCall("set_access", "set_format")

\* init_alsa, lines 72-78
snd_pcm_hw_params_set_format == ConfigCall("set_format", "set_channels")

\* init_alsa, lines 81-86
snd_pcm_hw_params_set_channels == ConfigCall("set_channels", "set_rate_near")

\* init_alsa, lines 89-95: the granted rate is accepted whatever it is
snd_pcm_hw_params_set_rate_near ==
    /\ pc = "set_rate_near"
    /\ \E err \in CallResults :
         /\ attempted' = Append(attempted, [stage |-> "set_rate_near", err |-> err])
         /\ IF Failed(err)
              THEN /\ init_error' = ErrorMessage("set_rate_near")
                   /\ InitFailed
                   /\ UNCHANGED sample_rate
              ELSE /\ sample_rate' \in Rates
                   /\ pc' = "hw_params"
                   /\ UNCHANGED <<rc, cleanupCalls, init_error>>
    /\ UNCHANGED <<argVars, device_name, exitCode, sigVars, pcm_handle, device,
                   bufVars, loopVars, callVars>>

\* init_alsa, lines 98-110, and main's call of play_silence_loop (line 228)
snd_pcm_hw_params == ConfigCall("hw_params", "calloc")

\* ------------------------------------------------------ play_silence_loop
\* main, line 231: play_silence_loop returned
LoopReturns ==
    /\ rc' = 0
    /\ pc' = "cleanup_alsa"
    /\ cleanupCalls' = cleanupCalls + 1

\* lines 123-129
AllocBuffer ==
    /\ pc = "calloc"
    /\ \E p \in {Buf, NULL} :
         /\ silence_buffer' = p
         /\ IF p = NULL
              THEN UNCHANGED <<heap, allocs>>
              ELSE /\ heap' = Zeros(buffer_frames * 2)
                   /\ allocs' = allocs + 1
         /\ IF AllocFailed(p)
              THEN /\ loopExit' = "nomem"
                   /\ LoopReturns
              ELSE /\ pc' = "while"
                   /\ UNCHANGED <<rc, cleanupCalls, loopExit>>
    /\ UNCHANGED <<argVars, device_name, exitCode, sigVars, devVars,
                   frames_written, recovery_attempts, consecFails, requested,
                   preparesThisIter, lastPause, callVars>>

\* "do { ... } while (running)": the first iteration is not guarded
LoopCheck_DoWhile ==
    /\ pc = "while"
    /\ IF writes = 0 \/ LoopCondition(running)
         THEN /\ pc' = "writei"
              /\ UNCHANGED loopExit
         ELSE /\ pc' = "free"
              /\ loopExit' = "stopped"
    /\ UNCHANGED <<argVars, device_name, rc, exitCode, sigVars, devVars,
                   bufVars, frames_written, recovery_attempts, consecFails,
                   requested, preparesThisIter, lastPause, callVars,
                   cleanupCalls>>

\* line 131: the poll of the run flag
LoopCheck ==
    /\ pc = "while"
    /\ IF LoopCondition(running)
         THEN /\ pc' = "writei"
              /\ UNCHANGED loopExit
         ELSE /\ pc' = "free"
              /\ loopExit' = "stopped"
    /\ UNCHANGED <<argVars, device_name, rc, exitCode, sigVars, devVars,
                   bufVars, frames_written, recovery_attempts, consecFails,
                   requested, preparesThisIter, lastPause, callVars,
                   cleanupCalls>>

\* line 133: snd_pcm_writei is entered and blocks
WriteBegin ==
    /\ pc = "writei"
    /\ pc' = "writei_blocked"
    /\ writes' = Sat(writes)
    /\ writesAfterStop' = IF running = 0 THEN Sat(writesAfterStop)
                                         ELSE writesAfterStop
    /\ staleUse' = Stale
    /\ requested' = WriteCount(frames_written)
    /\ preparesThisIter' = 0
    /\ UNCHANGED <<argVars, device_name, rc, exitCode, sigVars, devVars,
                   bufVars, frames_written, recovery_attempts, loopExit,
                   consecFails, lastPause, prepares, drains, closes,
                   cleanupCalls>>

\* lines 133-159: snd_pcm_writei returns and its result is classified
WriteReturn ==
    /\ pc = "writei_blocked"
    /\ \E fw \in WriteResults :
         /\ frames_written' = fw
         /\ lastPause' = "none"
         /\ IF fw < 0
              THEN IF IsUnderrun(fw)
                     THEN /\ pc' = "prepare"
                          /\ UNCHANGED <<loopExit, consecFails>>
                     ELSE /\ pc' = "free"
                          /\ loopExit' = "fatal"
                          /\ UNCHANGED consecFails
              ELSE /\ pc' = "usleep_1ms"
                   /\ consecFails' = IF fw = buffer_frames THEN 0 ELSE consecFails
                   /\ UNCHANGED loopExit
    /\ UNCHANGED <<argVars, device_name, rc, exitCode, sigVars, devVars,
                   bufVars, recovery_attempts, requested, preparesThisIter,
                   callVars, cleanupCalls>>

\* lines 139-149: snd_pcm_prepare and the recovery counter
Prepare ==
    /\ pc = "prepare"
    /\ prepares' = Sat(prepares)
    /\ preparesThisIter' = preparesThisIter + 1
    /\ staleUse' = Stale
    /\ \E err \in CallResults :
         IF Failed(err)
           THEN /\ recovery_attempts' = recovery_attempts + 1
                /\ consecFails' = consecFails + 1
                /\ IF CeilingReached(recovery_attempts + 1)
                     THEN /\ pc' = "free"
                          /\ loopExit' = "ceiling"
                     ELSE /\ pc' = "usleep_100ms"
                          /\ UNCHANGED loopExit
           ELSE /\ recovery_attempts' = 0
                /\ consecFails' = 0
                /\ pc' = "usleep_1ms"
                /\ UNCHANGED loopExit
    /\ UNCHANGED <<argVars, device_name, rc, exitCode, sigVars, devVars,
                   bufVars, frames_written, requested, lastPause, writes,
                   drains, closes, writesAfterStop, cleanupCalls>>

\* after the wait the re-prime is retried instead of the write
Sleep100ms_RetryPrepare ==
    /\ pc = "usleep_100ms"
    /\ lastPause' = "100ms"
    /\ pc' = "prepare"
    /\ UNCHANGED <<argVars, device_name, rc, exitCode, sigVars, devVars,
                   bufVars, frames_written, recovery_attempts, loopExit,
                   consecFails, requested, preparesThisIter, callVars,
                   cleanupCalls>>

\* lines 146-147: usleep(100000); continue
Sleep100ms ==
    /\ pc = "usleep_100ms"
    /\ lastPause' = "100ms"
    /\ pc' = "while"
    /\ UNCHANGED <<argVars, device_name, rc, exitCode, sigVars, devVars,
                   bufVars, frames_written, recovery_attempts, loopExit,
                   consecFails, requested, preparesThisIter, callVars,
                   cleanupCalls>>

\* the pause removed
Sleep1ms_Skipped ==
    /\ pc = "usleep_1ms"
    /\ pc' = "while"
    /\ UNCHANGED <<argVars, device_name, rc, exitCode, sigVars, devVars,
                   bufVars, loopVars, callVars, cleanupCalls>>

\* line 163: usleep(1000)
Sleep1ms ==
    /\ pc = "usleep_1ms"
    /\ lastPause' = "1ms"
    /\ pc' = "while"
    /\ UNCHANGED <<argVars, device_name, rc, exitCode, sigVars, devVars,
                   bufVars, frames_written, recovery_attempts, loopExit,
                   consecFails, requested, preparesThisIter, callVars,
                   cleanupCalls>>

\* lines 166-168: free the buffer and return to main
FreeBuffer ==
    /\ pc = "free"
    /\ heap' = << >>
    /\ LoopReturns
    /\ UNCHANGED <<argVars, device_name, exitCode, sigVars, devVars,
                   silence_buffer, allocs, loopVars, callVars>>

\* ----------------------------------------------------------- cleanup_alsa
\* line 172
CleanupCheck ==
    /\ pc = "cleanup_alsa"
    /\ pc' = IF HandleSet(pcm_handle) THEN "drain" ELSE "main_return"
    /\ UNCHANGED <<argVars, device_name, rc, exitCode, sigVars, devVars,
                   bufVars, loopVars, callVars, cleanupCalls>>

\* cleanup that closes without draining
Drain_Skipped ==
    /\ pc = "drain"
    /\ pc' = "close"
    /\ UNCHANGED <<argVars, device_name, rc, exitCode, sigVars, devVars,
                   bufVars, loopVars, callVars, cleanupCalls>>

\* line 173
Drain ==
    /\ pc = "drain"
    /\ drains' = drains + 1
    /\ staleUse' = Stale
    /\ pc' = "close"
    /\ UNCHANGED <<argVars, device_name, rc, exitCode, sigVars, devVars,
                   bufVars, loopVars, writes, prepares, closes,
                   writesAfterStop, cleanupCalls>>

\* "pcm_handle = NULL" forgotten after the close
Close_HandleKept ==
    /\ pc = "close"
    /\ closes' = closes + 1
    /\ staleUse' = Stale
    /\ device' = "closed"
    /\ pc' = "main_return"
    /\ UNCHANGED <<argVars, device_name, rc, exitCode, sigVars, pcm_handle,
                   attempted, sample_rate, init_error, bufVars, loopVars,
                   writes, prepares, drains, writesAfterStop, cleanupCalls>>

\* lines 174-177
Close ==
    /\ pc = "close"
    /\ closes' = closes + 1
    /\ staleUse' = Stale
    /\ device' = "closed"
    /\ pcm_handle' = NULL
    /\ pc' = "main_return"
    /\ UNCHANGED <<argVars, device_name, rc, exitCode, sigVars, attempted,
                   sample_rate, init_error, bufVars, loopVars, writes,
                   prepares, drains, writesAfterStop, cleanupCalls>>

\* main's return statements, lines 203, 209, 224, 234
MainReturn ==
    /\ pc = "main_return"
    /\ exitCode' = rc
    /\ pc' = "exited"
    /\ UNCHANGED <<argVars, device_name, rc, sigVars, devVars, bufVars,
                   loopVars, callVars, cleanupCalls>>

\* ------------------------------------------------------------------ specs
Program ==
    \/ ParseArgs
    \/ setup_signals
    \/ snd_pcm_open
    \/ snd_pcm_hw_params_any
    \/ snd_pcm_hw_params_set_access
    \/ snd_pcm_hw_params_set_format
    \/ snd_pcm_hw_params_set_channels
    \/ snd_pcm_hw_params_set_rate_near
    \/ snd_pcm_hw_params
    \/ AllocBuffer
    \/ LoopCheck
    \/ WriteBegin
    \/ WriteReturn
    \/ Prepare
    \/ Sleep100ms
    \/ Sleep1ms
    \/ FreeBuffer
    \/ CleanupCheck
    \/ Drain
    \/ Close
    \/ MainReturn

Next == Program \/ signal_handler

Spec == Init /\ [][Next]_vars

\* The program under scheduling: the single thread takes its next step
\* whenever it has one (every library call returns).
FairSpec == Spec /\ WF_vars(Program)

\* A caller that calls cleanup_alsa again right after it returned.
CallCleanupAgain ==
    /\ pc = "main_return"
    /\ cleanupCalls < MaxCleanupCalls
    /\ cleanupCalls' = cleanupCalls + 1
    /\ pc' = "cleanup_alsa"
    /\ UNCHANGED <<argVars, device_name, rc, exitCode, sigVars, devVars,
                   bufVars, loopVars, callVars>>

NextTwice == Next \/ CallCleanupAgain

CloseTwiceSpec == Init /\ [][NextTwice]_vars

\* ----------------------------------------------------------------- claims
\* positions after the playback loop has ended
PostLoop == {"free", "cleanup_alsa", "drain", "close", "main_return", "exited"}

\* some configuration call returned an error
AnyStageFailed == \E i \in DOMAIN attempted : attempted[i].err < 0

\* all seven configuration calls succeeded
Configured ==
    /\ Len(attempted) = 7
    /\ \A i \in DOMAIN attempted : attempted[i].err = 0

\* the last write returned an error other than underrun
LastWriteFatal == writes > 0 /\ frames_written < 0 /\ frames_written # -EPIPE

\* C1: once the device was opened, the process exits only after the handle
\* was drained and then closed, each exactly once, whichever way the run ends.
C1_DrainedThenClosedOnce ==
    /\ closes <= drains
    /\ drains <= 1
    /\ (pc = "exited" /\ device # "none") =>
          (drains = 1 /\ closes = 1 /\ device = "closed" /\ pcm_handle = NULL)

C1_Witness ==
    pc = "exited" /\ drains = 1 /\ closes = 1 /\ loopExit = "ceiling"

\* C2 as claimed: no write to the device begins while the run flag is false.
C2_NoWriteAfterStop == writesAfterStop = 0

\* C2 amended: after the flag became false at most one write begins, and only
\* when the handler ran between the loop's flag check and the write call; the
\* next flag check ends the loop.
C2_AtMostOneWriteAfterStop ==
    /\ writesAfterStop <= 1
    /\ writesAfterStop = 1 => stopPc = "writei"
    /\ (running = 0 /\ pc = "writei") =>
          (stopPc = "writei" /\ writesAfterStop = 0)

C2_Witness == writesAfterStop = 1 /\ pc = "exited" /\ loopExit = "stopped"

\* C3: when the loop aborted on the recovery ceiling, cleanup has run and the
\* exit code is non-zero.
C3_CeilingExitNonZero ==
    (pc = "exited" /\ loopExit = "ceiling") => (closes = 1 /\ exitCode # 0)

\* C4: the loop aborts on the ceiling only after 3 failed re-primes in a row,
\* with no full write and no successful re-prime between them.
C4_AbortOnlyOnConsecutive ==
    loopExit = "ceiling" => consecFails = max_recovery_attempts

\* C5: after a write of the full frame count the recovery counter is 0.
C5_FullWriteResetsCounter ==
    (pc = "usleep_1ms" /\ frames_written = buffer_frames) =>
        recovery_attempts = 0

\* C6: when a configuration call failed, nothing is ever written, the exit
\* code is 1 and the handle, if it was opened, is drained and closed.
C6_ConfigFailure ==
    AnyStageFailed =>
        /\ writes = 0
        /\ prepares = 0
        /\ allocs = 0
        /\ pc \in {"cleanup_alsa", "drain", "close", "main_return", "exited"}
        /\ pc = "exited" =>
              /\ exitCode = 1
              /\ pcm_handle = NULL
              /\ device # "none" => (device = "closed" /\ drains = 1 /\ closes = 1)

C6_Witness ==
    pc = "exited" /\ AnyStageFailed /\ Len(attempted) = 7 /\ closes = 1

\* C7: a write error other than underrun ends the loop at once: no re-prime,
\* no further write, the recovery counter untouched, and the same cleanup.
C7_FatalWriteAborts ==
    /\ [][(pc = "writei_blocked" /\ pc' # pc
            /\ frames_written' < 0 /\ frames_written' # -EPIPE)
          => (pc' = "free"
              /\ recovery_attempts' = recovery_attempts
              /\ prepares' = prepares /\ writes' = writes)]_vars
    /\ [](LastWriteFatal =>
            /\ pc \in PostLoop
            /\ rc = 0
            /\ pc = "exited" => (drains = 1 /\ closes = 1))

C7_Witness ==
    pc = "exited" /\ loopExit = "fatal" /\ recovery_attempts = 2 /\ closes = 1

\* C8: once the run flag is false after a successful configuration, the
\* process reaches cleanup and exits; a loop ended by the flag exits with 0.
C8_StopTerminates ==
    /\ (Configured /\ running = 0) ~> (pc = "exited" /\ closes = 1)
    /\ []((pc = "exited" /\ loopExit = "stopped") => exitCode = 0)

C8_Witness ==
    pc = "exited" /\ loopExit = "stopped" /\ exitCode = 0 /\ closes = 1

\* C9: cleanup_alsa called with a null handle (never opened, or already
\* closed by the previous call) drains nothing, closes nothing and changes
\* no state.
C9_CloseIdempotent ==
    /\ [][(pc = "cleanup_alsa" /\ pcm_handle = NULL /\ pc' # pc)
          => (pc' = "main_return"
              /\ UNCHANGED <<devVars, bufVars, loopVars, callVars, rc,
                             exitCode, sigVars>>)]_vars
    /\ [](drains <= 1 /\ closes <= 1 /\ ~staleUse)

C9_Witness ==
    pc = "main_return" /\ cleanupCalls = 2 /\ closes = 1 /\ drains = 1

\* C10: the recovery counter stays within 0..3, and at 3 the loop has ended.
C10_CounterBounded ==
    /\ recovery_attempts \in 0..max_recovery_attempts
    /\ recovery_attempts = max_recovery_attempts => pc \in PostLoop

C10_Witness ==
    recovery_attempts = max_recovery_attempts /\ pc = "exited"

\* positions inside the playback loop
LoopPcs == {"while", "writei", "writei_blocked", "prepare", "usleep_100ms",
            "usleep_1ms"}

\* the order of the configuration calls in init_alsa
StageOrder == <<"snd_pcm_open", "hw_params_any", "set_access", "set_format",
                "set_channels", "set_rate_near", "hw_params">>

\* C11: a partial write leaves the recovery counter as it was, the loop goes
\* on to the pause and the next iteration, and every write, the one after a
\* partial write included, requests the full buffer_frames.
C11_PartialWriteBenign ==
    /\ [][(pc = "writei_blocked" /\ pc' # pc
            /\ frames_written' >= 0 /\ frames_written' # buffer_frames)
          => (pc' = "usleep_1ms"
              /\ recovery_attempts' = recovery_attempts
              /\ loopExit' = loopExit)]_vars
    /\ [](writes > 0 => requested = buffer_frames)

C11_Witness ==
    /\ pc = "writei_blocked"
    /\ frames_written = 512
    /\ recovery_attempts = 1
    /\ requested = buffer_frames

\* C12: no write, re-prime, drain or close ever acts on the handle after the
\* close made by cleanup_alsa, even when cleanup_alsa is called again.
C12_NoUseAfterClose ==
    /\ ~staleUse
    /\ device = "closed" =>
          (pcm_handle = NULL /\ pc \in {"cleanup_alsa", "main_return", "exited"})

C12_Witness ==
    pc = "exited" /\ device = "closed" /\ writes > 0 /\ cleanupCalls = 2

\* C13: the buffer is allocated once before the first write, holds
\* buffer_frames * 2 zero samples whenever the loop runs, and is neither
\* changed nor reallocated by any step of the loop.
C13_SilenceBuffer ==
    /\ [](allocs <= 1)
    /\ [](writes > 0 => allocs = 1)
    /\ [](pc \in LoopPcs =>
            /\ silence_buffer = Buf
            /\ Len(heap) = buffer_frames * 2
            /\ \A i \in DOMAIN heap : heap[i] = 0)
    /\ [][(pc \in LoopPcs) => (bufVars' = bufVars)]_vars

C13_Witness ==
    pc = "writei_blocked" /\ writes >= 2 /\ frames_written = 512 /\ prepares > 0

\* C14: with more than one argument, or with a help flag as the only
\* argument, no device is opened and nothing is configured; the exit code is
\* 1 for too many arguments and 0 for help.
C14_ArgsGuardOpen ==
    /\ argc > 2 =>
          /\ attempted = << >> /\ device = "none" /\ ~handlers
          /\ pc = "exited" => exitCode = 1
    /\ (argc = 2 /\ argv1 \in {"-h", "--help"}) =>
          /\ attempted = << >> /\ device = "none" /\ ~handlers
          /\ pc = "exited" => exitCode = 0

C14_Witness ==
    pc = "exited" /\ argc = 2 /\ argv1 = "--help" /\ exitCode = 0

\* C15 as claimed: whenever a further write is about to begin, the iteration
\* before it made the 1 ms pause.
C15_AlwaysPause1ms ==
    (pc = "writei" /\ writes > 0) => lastPause = "1ms"

\* C15 amended: whenever a further write is about to begin, the iteration
\* before it paused: 100 ms (and not 1 ms) after a failed re-prime, 1 ms after
\* every other outcome.
C15_PauseBeforeNextWrite ==
    (pc = "writei" /\ writes > 0) =>
        lastPause = IF frames_written = -EPIPE /\ recovery_attempts > 0
                      THEN "100ms" ELSE "1ms"

C15_Witness ==
    pc = "writei" /\ writes > 0 /\ lastPause = "100ms" /\ recovery_attempts = 2

\* C16: the configuration calls are made in the fixed order, each only after
\* all earlier ones succeeded and none twice; the first failure ends init_alsa
\* with the message of that stage, and the messages tell the stages apart.
C16_StagesInOrder ==
    /\ Len(attempted) <= Len(StageOrder)
    /\ \A i \in DOMAIN attempted :
          /\ attempted[i].stage = StageOrder[i]
          /\ i < Len(attempted) => attempted[i].err = 0
    /\ AnyStageFailed =>
          /\ init_error = ErrorMessage(attempted[Len(attempted)].stage)
          /\ pc \in {"cleanup_alsa", "drain", "close", "main_return", "exited"}
    /\ ~AnyStageFailed => init_error = "none"
    /\ \A i, j \in DOMAIN StageOrder :
          i # j => ErrorMessage(StageOrder[i]) # ErrorMessage(StageOrder[j])

C16_Witness ==
    /\ pc = "exited"
    /\ Len(attempted) = 4
    /\ attempted[4].err < 0
    /\ init_error = "Cannot set format"

\* C17: an underrun is followed by exactly one re-prime; success zeroes the
\* counter and goes on to the pause and the next write, failure adds one to
\* the counter and, below the ceiling, waits 100 ms and returns to the flag
\* check and the write without another re-prime.
C17_OneReprimePerUnderrun ==
    /\ [][(pc = "writei_blocked" /\ pc' # pc /\ frames_written' = -EPIPE)
          => (pc' = "prepare" /\ recovery_attempts' = recovery_attempts)]_vars
    /\ [][(pc = "prepare" /\ pc' # pc)
          => \/ (recovery_attempts' = 0 /\ pc' = "usleep_1ms")
             \/ /\ recovery_attempts' = recovery_attempts + 1
                /\ pc' = (IF recovery_attempts' < max_recovery_attempts
                            THEN "usleep_100ms" ELSE "free")]_vars
    /\ [][(pc = "usleep_100ms" /\ pc' # pc) => pc' = "while"]_vars
    /\ [][(pc = "while" /\ pc' # pc)
          => pc' = (IF running # 0 THEN "writei" ELSE "free")]_vars
    /\ [](preparesThisIter <= 1)
    /\ [](pc = "prepare" => (preparesThisIter = 0 /\ frames_written = -EPIPE))

C17_Witness ==
    /\ pc = "writei_blocked"
    /\ lastPause = "100ms"
    /\ recovery_attempts = 2
    /\ preparesThisIter = 0

\* positions between setup_signals and the loop's first flag check (the
\* check itself included, while no write was made)
BeforeFirstCheck == {"snd_pcm_open", "hw_params_any", "set_access",
                     "set_format", "set_channels", "set_rate_near",
                     "hw_params", "calloc", "while"}

\* C18: when the handler first ran before the loop's first flag check, no
\* write and no re-prime is ever made, an opened handle is drained and closed
\* once before exit, and after a successful configuration the exit code is 0.
C18_StopBeforeLoop ==
    (running = 0 /\ stopWrites = 0 /\ stopPc \in BeforeFirstCheck) =>
        /\ writes = 0
        /\ prepares = 0
        /\ pc = "exited" =>
              /\ device # "none" => (drains = 1 /\ closes = 1)
              /\ Configured => exitCode = 0

C18_Witness ==
    /\ pc = "exited"
    /\ stopPc = "set_format"
    /\ Configured
    /\ allocs = 1
    /\ exitCode = 0
    /\ closes = 1

\* C19: when calloc failed after a successful configuration, no write and no
\* re-prime is made, the handle is drained and closed once and the exit code
\* is 0.
C19_AllocFailure ==
    (Configured /\ pc # "calloc" /\ silence_buffer = NULL) =>
        /\ writes = 0
        /\ prepares = 0
        /\ pc \in {"cleanup_alsa", "drain", "close", "main_return", "exited"}
        /\ pc = "exited" => (exitCode = 0 /\ drains = 1 /\ closes = 1)

C19_Witness ==
    pc = "exited" /\ loopExit = "nomem" /\ exitCode = 0 /\ closes = 1

====
